---- MODULE Spec2Model ----
(***************************************************************************)
(* Model of expyfun/_input_controllers.py: the Keyboard and Mouse input    *)
(* controllers of an ExperimentController.  Both poll one pyglet window    *)
(* (win.dispatch_events), which synchronously calls the registered press   *)
(* handlers; the handlers append to the controllers' buffers.              *)
(*                                                                         *)
(* The caller is single-threaded: it is either idle or inside one blocking *)
(* wait_* call.  The environment (the user pressing keys, the clock) runs  *)
(* in between the statements of a blocking call.                           *)
(***************************************************************************)
EXTENDS Integers, Sequences, FiniteSets, TLC

(* ------------------------------ bounds --------------------------------- *)
\* number of key presses / clicks the user produces in one run
MaxEvents == 2
\* last reading of the master clock
MaxTime == 2

(* --------------------------- optional values --------------------------- *)
\* Python's None / a present value x
None == <<>>
Some(x) == <<x>>
\* float('inf') as max_wait; a finite max_wait m is Some(m)
Inf == <<>>
isinf(max_wait) == max_wait = Inf

InList(x, list) == \E i \in 1..Len(list) : list[i] = x

(* ----------------------------- input values ---------------------------- *)
\* Strings a press handler has to decode are sequences of characters.
A_KEY == <<"A">>
ESCAPE_KEY == <<"E", "S", "C">>
ONE_KEY == <<"_", "1">>
\* what win.on_key_press receives: pyglet's name of the symbol, or, for an
\* emulated press, the str() of the given symbol
RawKeys ==
    { [kind |-> "key", symbol |-> A_KEY, emulated |-> FALSE],
      [kind |-> "key", symbol |-> ESCAPE_KEY, emulated |-> FALSE],
      [kind |-> "key", symbol |-> ONE_KEY, emulated |-> FALSE],
      [kind |-> "key", symbol |-> <<"1">>, emulated |-> TRUE] }
\* what win.on_mouse_press receives
RawClicks ==
    { [kind |-> "click", x |-> 3, y |-> 4, button |-> "LEFT"],
      [kind |-> "click", x |-> 5, y |-> 6, button |-> "RIGHT"] }

\* force_quit_keys given to Keyboard.__init__
force_quit_keys == << <<"e", "s", "c">> >>

\* the caller's live_keys / live_buttons
LiveKeys == { None, Some(<<>>), Some(<< <<"a">> >>) }
LiveButtons == { None, Some(<<>>), Some(<<"left">>) }
\* (timestamp, relative_to)
CallModes == { <<FALSE, None>>, <<TRUE, None>>, <<TRUE, Some(1)>> }
MaxWaits == { Some(1), Inf }
MinWaits == { 0, 1, 2 }
\* what ec._get_time_correction gives when the controllers are made, and
\* what it can give later
FirstTimeCorr == 0
TimeCorrs == { 10 }

(* ------------------------------- state --------------------------------- *)
VARIABLES
    now,              \* master_clock() and clock(): the time, in ticks
    pending,          \* presses the window has received and not dispatched
    keyboard_buffer,  \* Keyboard._keyboard_buffer
    mouse_buffer,     \* Mouse._mouse_buffer
    kb_listen_start,  \* Keyboard.listen_start
    kb_time_correction, \* Keyboard.time_correction
    mouse_listen_start, \* Mouse.listen_start
    mouse_time_correction, \* Mouse.time_correction
    pc,               \* where the caller is: idle, or a place in a wait_*
    call,             \* the running or the last call: arguments and result
    pressed,          \* the local `pressed` / `clicked` of a wait_*
    logged,           \* what the running or last call gave to the recorder
    did,              \* which effects the running or last call has had
    arrived,          \* history: every press, in order of arrival
    marks,            \* history: how many presses had arrived when
                      \* listen_presses (kl) / listen_clicks (ml) was last
                      \* called and when the keyboard (kc) / mouse (mc)
                      \* buffer was last cleared; the time of the last
                      \* listen_presses (kt) / listen_clicks (mt), if any, and
                      \* the time correction it was given (kcorr / mcorr)
    script            \* the kind of experiment that runs: which controller
                      \* it takes its responses from

vars == << now, pending, keyboard_buffer, mouse_buffer, kb_listen_start,
           kb_time_correction, mouse_listen_start, mouse_time_correction,
           pc, call, pressed, logged, did, arrived, marks, script >>

(* --------------------- the program state as a value -------------------- *)
\* The part of the state a method of Keyboard / Mouse can change, so that a
\* method is an operator from state to state and calls compose.  deliv is
\* the number of presses dispatched so far: press i of `arrived` is the i-th
\* to be dispatched.
St ==
    [ pending |-> pending, kb |-> keyboard_buffer, mb |-> mouse_buffer,
      logged |-> logged, did |-> did, deliv |-> Len(arrived) - Len(pending) ]

Commit(s) ==
    /\ pending' = s.pending
    /\ keyboard_buffer' = s.kb
    /\ mouse_buffer' = s.mb
    /\ logged' = s.logged
    /\ did' = s.did

(* ------------------------- the press handlers -------------------------- *)
\* str.lower() on the characters the model uses
lower_char(c) ==
    CASE c = "A" -> "a"
      [] c = "E" -> "e"
      [] c = "S" -> "s"
      [] c = "C" -> "c"
      [] OTHER -> c

lower(str) == [i \in 1..Len(str) |-> lower_char(str[i])]

\* str.lstrip(chars): drop the leading characters that are in chars
RECURSIVE lstrip(_, _)
lstrip(str, chars) ==
    IF str # <<>> /\ Head(str) \in chars THEN lstrip(Tail(str), chars) ELSE str

\* _on_pyglet_keypress that sets the buffer to the new press (= for +=)
on_pyglet_keypress_set(buf, e, id) ==
    LET key_time == now
        this_key == IF e.emulated THEN e.symbol
                    ELSE lstrip(lstrip(lower(e.symbol), {"_"}), {"N", "U", "M", "_"})
    IN << [id |-> id, key |-> this_key, t |-> key_time] >>

\* Keyboard._on_pyglet_keypress; id is the press's place in `arrived`
on_pyglet_keypress(buf, e, id) ==
    LET key_time == now
        this_key == IF e.emulated THEN e.symbol
                    ELSE lstrip(lstrip(lower(e.symbol), {"_"}), {"N", "U", "M", "_"})
    IN Append(buf, [id |-> id, key |-> this_key, t |-> key_time])

\* Mouse._button_names
button_names(button) ==
    CASE button = "LEFT" -> "left"
      [] button = "MIDDLE" -> "middle"
      [] button = "RIGHT" -> "right"

\* Mouse._on_pyglet_mouse_click
on_pyglet_mouse_click(buf, e, id) ==
    LET button_time == now
        this_button == button_names(e.button)
    IN Append(buf, [id |-> id, button |-> this_button, x |-> e.x, y |-> e.y,
                    t |-> button_time])

\* win.dispatch_events(): hand every pending press, oldest first, to its
\* handler.  (s is bound to the value of s0, so that the state the presses
\* are handed over in is evaluated once.)
RECURSIVE dispatch_events(_)
dispatch_events(s0) ==
    LET one(s) ==
            IF s.pending = <<>> THEN [s EXCEPT !.did = @ \cup {"pump"}]
            ELSE LET e == Head(s.pending)
                     id == s.deliv + 1
                 IN dispatch_events(
                        [s EXCEPT !.pending = Tail(@),
                                  !.deliv = @ + 1,
                                  !.kb = IF e.kind = "key"
                                         THEN on_pyglet_keypress(@, e, id) ELSE @,
                                  !.mb = IF e.kind = "click"
                                         THEN on_pyglet_mouse_click(@, e, id) ELSE @])
    IN CHOOSE r \in { one(s) : s \in {s0} } : TRUE

(* ------------------------------ Keyboard ------------------------------- *)
\* _clear_keyboard_events that empties the buffer without dispatching first
clear_keyboard_events_nopump(s) ==
    [s EXCEPT !.kb = <<>>, !.did = @ \cup {"clear"}]

\* Keyboard._clear_keyboard_events
clear_keyboard_events(s) ==
    LET p == dispatch_events(s)
    IN [p EXCEPT !.kb = <<>>, !.did = @ \cup {"clear"}]

\* _retrieve_keyboard_events that forgets the filter
retrieve_keyboard_events_nofilter(s, live_keys) ==
    LET p == dispatch_events(s)
    IN [ s |-> p, targets |-> p.kb ]

\* _retrieve_keyboard_events that takes what it returns out of the buffer
retrieve_keyboard_events_consume(s, live_keys) ==
    LET lk == IF live_keys # None
              THEN Some(live_keys[1] \o force_quit_keys) ELSE None
        p == dispatch_events(s)
    IN [ s |-> [p EXCEPT !.kb = <<>>],
         targets |-> SelectSeq(p.kb, LAMBDA key : lk = None \/ InList(key.key, lk[1])) ]

\* Keyboard._retrieve_keyboard_events: [s: the state after, targets]
retrieve_keyboard_events(s, live_keys) ==
    LET lk == IF live_keys # None
              THEN Some(live_keys[1] \o force_quit_keys) ELSE None
        p == dispatch_events(s)
    IN [ s |-> p,
         targets |-> SelectSeq(p.kb, LAMBDA key : lk = None \/ InList(key.key, lk[1])) ]

\* The keys argument of check_force_quit: None, a string, a list of strings,
\* or something else (a tuple).
KeysNone == [type |-> "None", val |-> <<>>]
KeysStr(k) == [type |-> "str", val |-> <<k>>]
KeysList(ks) == [type |-> "list", val |-> ks]
KeysOther(ks) == [type |-> "tuple", val |-> ks]

\* check_force_quit that looks for force-quit keys only in the buffer, never
\* in the keys it is given
check_force_quit_buffer(s, keys) ==
    IF keys.type = "None"
    THEN LET r == retrieve_keyboard_events(s, Some(<<>>))
         IN [ s |-> [r.s EXCEPT !.did = @ \cup {"check_force_quit"}],
              raised |-> IF Len(r.targets) > 0 THEN "ForceQuit" ELSE "" ]
    ELSE IF keys.type \in {"str", "list"}
    THEN [ s |-> [s EXCEPT !.did = @ \cup {"check_force_quit"}], raised |-> "" ]
    ELSE [ s |-> s, raised |-> "TypeError" ]

\* check_force_quit that raises for any key given, in the set or not
check_force_quit_any(s, keys) ==
    IF keys.type = "None"
    THEN LET r == retrieve_keyboard_events(s, Some(<<>>))
         IN [ s |-> [r.s EXCEPT !.did = @ \cup {"check_force_quit"}],
              raised |-> IF Len(r.targets) > 0 THEN "ForceQuit" ELSE "" ]
    ELSE IF keys.type \in {"str", "list"}
    THEN [ s |-> [s EXCEPT !.did = @ \cup {"check_force_quit"}],
           raised |-> IF Len(keys.val) > 0 THEN "ForceQuit" ELSE "" ]
    ELSE [ s |-> s, raised |-> "TypeError" ]

\* Keyboard.check_force_quit: [s: the state after, raised: "" or the error]
check_force_quit(s, keys) ==
    IF keys.type = "None"
    THEN LET r == retrieve_keyboard_events(s, Some(<<>>))
         IN [ s |-> [r.s EXCEPT !.did = @ \cup {"check_force_quit"}],
              raised |-> IF Len(r.targets) > 0 THEN "ForceQuit" ELSE "" ]
    ELSE IF keys.type \in {"str", "list"}
    THEN LET ks == SelectSeq(keys.val, LAMBDA k : InList(k, force_quit_keys))
         IN [ s |-> [s EXCEPT !.did = @ \cup {"check_force_quit"}],
              raised |-> IF Len(ks) > 0 THEN "ForceQuit" ELSE "" ]
    ELSE [ s |-> s, raised |-> "TypeError" ]

\* _correct_presses that checks for a force-quit key before it logs
correct_presses_checkfirst(s, p, timestamp, relative_to, time_correction) ==
    IF Len(p) > 0
    THEN LET corrected == [i \in 1..Len(p) |-> [p[i] EXCEPT !.t = @ + time_correction]]
             keys == [i \in 1..Len(p) |-> p[i].key]
             c == check_force_quit(s, KeysList(keys))
             s1 == IF c.raised # "" THEN c.s
                   ELSE [c.s EXCEPT !.logged = Append(@, corrected),
                                    !.did = @ \cup {"log"}]
         IN [ s |-> s1,
              raised |-> c.raised,
              val |-> IF timestamp
                      THEN [i \in 1..Len(p) |->
                               [corrected[i] EXCEPT !.t = @ - relative_to[1]]]
                      ELSE [i \in 1..Len(p) |-> [id |-> p[i].id, key |-> p[i].key]] ]
    ELSE [ s |-> s, raised |-> "", val |-> p ]

\* _correct_presses that leaves the time correction out
correct_presses_nocorr(s, p, timestamp, relative_to, time_correction) ==
    IF Len(p) > 0
    THEN LET corrected == p
             s1 == [s EXCEPT !.logged = Append(@, corrected), !.did = @ \cup {"log"}]
             keys == [i \in 1..Len(p) |-> p[i].key]
             c == check_force_quit(s1, KeysList(keys))
         IN [ s |-> c.s,
              raised |-> c.raised,
              val |-> IF timestamp
                      THEN [i \in 1..Len(p) |->
                               [corrected[i] EXCEPT !.t = @ - relative_to[1]]]
                      ELSE [i \in 1..Len(p) |-> [id |-> p[i].id, key |-> p[i].key]] ]
    ELSE [ s |-> s, raised |-> "", val |-> p ]

\* Keyboard._correct_presses: [s, raised, val: the list returned]
correct_presses(s, p, timestamp, relative_to, time_correction) ==
    IF Len(p) > 0
    THEN LET corrected == [i \in 1..Len(p) |-> [p[i] EXCEPT !.t = @ + time_correction]]
             s1 == [s EXCEPT !.logged = Append(@, corrected), !.did = @ \cup {"log"}]
             keys == [i \in 1..Len(p) |-> p[i].key]
             c == check_force_quit(s1, KeysList(keys))
         IN [ s |-> c.s,
              raised |-> c.raised,
              val |-> IF timestamp
                      THEN [i \in 1..Len(p) |->
                               [corrected[i] EXCEPT !.t = @ - relative_to[1]]]
                      ELSE [i \in 1..Len(p) |-> [id |-> p[i].id, key |-> p[i].key]] ]
    ELSE [ s |-> s, raised |-> "", val |-> p ]

\* the argument checks without the one of min_wait against max_wait
init_wait_press_invalid_nomin(max_wait, min_wait, live_keys) ==
    isinf(max_wait) /\ live_keys = Some(<<>>)

\* The argument checks of Keyboard._init_wait_press: TRUE when it raises
init_wait_press_invalid(max_wait, min_wait, live_keys) ==
    \/ isinf(max_wait) /\ live_keys = Some(<<>>)
    \/ ~ (IF isinf(max_wait) THEN TRUE ELSE min_wait <= max_wait[1])

(* -------------------------------- Mouse -------------------------------- *)
\* ec.check_force_quit, which Mouse keeps as self._check_force_quit: the
\* ExperimentController hands it to its Keyboard, with no keys
ec_check_force_quit(s) == check_force_quit(s, KeysNone)

\* _clear_mouse_events that empties the keyboard buffer too
clear_mouse_events_both(s) ==
    LET p == dispatch_events(s)
    IN [p EXCEPT !.mb = <<>>, !.kb = <<>>, !.did = @ \cup {"clear"}]

\* _clear_mouse_events that dispatches and leaves the buffer as it is
clear_mouse_events_keep(s) ==
    LET p == dispatch_events(s)
    IN [p EXCEPT !.did = @ \cup {"clear"}]

\* Mouse._clear_mouse_events
clear_mouse_events(s) ==
    LET p == dispatch_events(s)
    IN [p EXCEPT !.mb = <<>>, !.did = @ \cup {"clear"}]

\* Mouse._retrieve_mouse_events: [s: the state after, targets]
retrieve_mouse_events(s, live_buttons) ==
    LET p == dispatch_events(s)
    IN [ s |-> p,
         targets |-> SelectSeq(p.mb, LAMBDA button :
                        live_buttons = None \/ InList(button.button, live_buttons[1])) ]

\* Mouse._correct_clicks: [s, raised, val: the list returned]
correct_clicks(s, c, timestamp, relative_to, time_correction) ==
    IF Len(c) > 0
    THEN LET corrected == [i \in 1..Len(c) |-> [c[i] EXCEPT !.t = @ + time_correction]]
             s1 == [s EXCEPT !.logged = Append(@, corrected), !.did = @ \cup {"log"}]
             buttons == [i \in 1..Len(c) |->
                           [id |-> c[i].id, button |-> c[i].button,
                            x |-> c[i].x, y |-> c[i].y]]
             q == ec_check_force_quit(s1)
         IN [ s |-> q.s,
              raised |-> q.raised,
              val |-> IF timestamp
                      THEN [i \in 1..Len(c) |->
                               [corrected[i] EXCEPT !.t = @ - relative_to[1]]]
                      ELSE buttons ]
    ELSE [ s |-> s, raised |-> "", val |-> c ]

\* The argument checks of Mouse._init_wait_click: TRUE when it raises
init_wait_click_invalid(max_wait, min_wait, live_buttons) ==
    \/ isinf(max_wait) /\ live_buttons = Some(<<>>)
    \/ ~ (IF isinf(max_wait) THEN TRUE ELSE min_wait <= max_wait[1])

(* ------------------------------ the calls ------------------------------ *)
\* The record of a call: its arguments, and what it has come to.
\*   status  "running", "ok" (returned), or the error raised
\*   shape   of the value returned: "list", "one" (one press), "None",
\*           "NonePair" ((None, None))
\*   rel     relative_to as the call uses it; start: start_time
\*   from, delivered: how many presses had arrived when the call began /
\*           had been dispatched when the call ended
\*   clearedInTime  the wait cleared the buffer before max_wait was over
\*   before  at a ConfigError and in check_force_quit: the controllers'
\*           fields when the call began
\*   keys    the argument of check_force_quit
NewCall(op, max_wait, min_wait, live, timestamp, relative_to) ==
    [ op |-> op, max_wait |-> max_wait, min_wait |-> min_wait, live |-> live,
      timestamp |-> timestamp, relative_to |-> relative_to,
      rel |-> relative_to, start |-> now,
      status |-> "running", shape |-> "list", val |-> <<>>, time |-> now,
      from |-> Len(arrived), clearedInTime |-> FALSE, delivered |-> Len(arrived) - Len(pending),
      before |-> <<>>, keys |-> KeysNone ]

Fields ==
    << keyboard_buffer, mouse_buffer, kb_listen_start, kb_time_correction,
       mouse_listen_start, mouse_time_correction >>

\* ForceQuit ends the run of the experiment; after any other end of a call
\* the caller has the result (pc "returned") and goes on.
After(status) == IF status = "ForceQuit" THEN "quit" ELSE "returned"

\* the call ends: it returns (status "ok") or raises
Ended(c, status, shape, val, s) ==
    [c EXCEPT !.status = status, !.shape = shape, !.val = val, !.time = now,
              !.delivered = s.deliv]

Fresh(s) == [s EXCEPT !.logged = <<>>, !.did = {}]

UnchangedEnv == UNCHANGED << now, arrived, script >>
UnchangedMarks == UNCHANGED marks
UnchangedSessions ==
    UNCHANGED << kb_listen_start, kb_time_correction,
                 mouse_listen_start, mouse_time_correction >>

\* Keyboard.listen_presses
listen_presses(get_time_corr) ==
    /\ pc = "idle"
    /\ kb_time_correction' = get_time_corr
    /\ kb_listen_start' = Some(now)
    /\ LET s == clear_keyboard_events(Fresh(St))
       IN /\ Commit(s)
          /\ call' = Ended(NewCall("listen_presses", Inf, 0, None, FALSE, None),
                           "ok", "None", <<>>, s)
          /\ marks' = [marks EXCEPT !.kl = Len(arrived), !.kc = Len(arrived),
                                  !.kt = Some(now), !.kcorr = get_time_corr]
    /\ pc' = "returned"
    /\ UNCHANGED << pressed, mouse_listen_start, mouse_time_correction >>
    /\ UnchangedEnv

\* get_presses that retrieves before it looks for a session
get_presses_pumpfirst(live_keys, timestamp, relative_to) ==
    /\ pc = "idle"
    /\ LET c == NewCall("get_presses", Inf, 0, live_keys, timestamp, relative_to)
           r == retrieve_keyboard_events(Fresh(St), live_keys)
       IN IF timestamp /\ relative_to = None /\ kb_listen_start = None
          THEN /\ Commit(r.s)
               /\ call' = Ended(c, "StateError", "None", <<>>, r.s)
          ELSE LET rel == IF timestamp /\ relative_to = None
                          THEN kb_listen_start ELSE relative_to
                   k == correct_presses(r.s, r.targets, timestamp, rel,
                                        kb_time_correction)
               IN /\ Commit(k.s)
                  /\ call' = IF k.raised # ""
                             THEN Ended([c EXCEPT !.rel = rel], k.raised, "None", <<>>, k.s)
                             ELSE Ended([c EXCEPT !.rel = rel], "ok", "list", k.val, k.s)
    /\ pc' = After(call'.status)
    /\ UNCHANGED pressed
    /\ UnchangedSessions
    /\ UnchangedEnv
    /\ UnchangedMarks

\* Keyboard.get_presses
get_presses(live_keys, timestamp, relative_to) ==
    /\ pc = "idle"
    /\ LET c == NewCall("get_presses", Inf, 0, live_keys, timestamp, relative_to)
       IN IF timestamp /\ relative_to = None /\ kb_listen_start = None
          THEN /\ Commit(Fresh(St))
               /\ call' = Ended(c, "StateError", "None", <<>>, St)
          ELSE LET rel == IF timestamp /\ relative_to = None
                          THEN kb_listen_start ELSE relative_to
                   r == retrieve_keyboard_events(Fresh(St), live_keys)
                   k == correct_presses(r.s, r.targets, timestamp, rel,
                                        kb_time_correction)
               IN /\ Commit(k.s)
                  /\ call' = IF k.raised # ""
                             THEN Ended([c EXCEPT !.rel = rel], k.raised, "None", <<>>, k.s)
                             ELSE Ended([c EXCEPT !.rel = rel], "ok", "list", k.val, k.s)
    /\ pc' = After(call'.status)
    /\ UNCHANGED pressed
    /\ UnchangedSessions
    /\ UnchangedEnv
    /\ UnchangedMarks

\* A wait is started only if the clock of the model can reach its end.
Fits(max_wait, min_wait) ==
    /\ now + min_wait <= MaxTime
    /\ IF isinf(max_wait) THEN TRUE ELSE now + max_wait[1] <= MaxTime

KbWaits == {"wait_one_press", "wait_for_presses"}
MouseWaits == {"wait_one_click", "wait_for_clicks"}

\* Keyboard._init_wait_press up to wait_secs: [s, raised]
init_wait_press_enter(s, max_wait, min_wait, live_keys) ==
    IF init_wait_press_invalid(max_wait, min_wait, live_keys)
    THEN [s |-> s, raised |-> "ConfigError"]
    ELSE [s |-> s, raised |-> ""]

\* _init_wait_press that starts a session when relative_to is missing
init_wait_press_anchor(op, max_wait, min_wait, live_keys, timestamp, relative_to) ==
    /\ pc = "idle"
    /\ LET c == NewCall(op, max_wait, min_wait, live_keys, timestamp, relative_to)
           e == init_wait_press_enter(Fresh(St), max_wait, min_wait, live_keys)
       IN IF e.raised # ""
          THEN /\ Commit(e.s)
               /\ call' = Ended([c EXCEPT !.before = Fields], e.raised, "None", <<>>, e.s)
               /\ pc' = "returned"
               /\ UNCHANGED kb_listen_start
          ELSE /\ Fits(max_wait, min_wait)
               /\ Commit(e.s)
               /\ call' = [c EXCEPT !.rel = IF timestamp /\ relative_to = None
                                            THEN Some(now) ELSE relative_to]
               /\ kb_listen_start' = IF timestamp /\ relative_to = None
                                     THEN Some(now) ELSE kb_listen_start
               /\ pc' = "settle"
    /\ pressed' = <<>>
    /\ UNCHANGED << kb_time_correction, mouse_listen_start, mouse_time_correction >>
    /\ UnchangedEnv
    /\ UnchangedMarks

\* _init_wait_press that takes listen_start, when there is one, for the
\* missing relative_to
init_wait_press_session(op, max_wait, min_wait, live_keys, timestamp, relative_to) ==
    /\ pc = "idle"
    /\ LET c == NewCall(op, max_wait, min_wait, live_keys, timestamp, relative_to)
           e == init_wait_press_enter(Fresh(St), max_wait, min_wait, live_keys)
       IN IF e.raised # ""
          THEN /\ Commit(e.s)
               /\ call' = Ended([c EXCEPT !.before = Fields], e.raised, "None", <<>>, e.s)
               /\ pc' = "returned"
          ELSE /\ Fits(max_wait, min_wait)
               /\ Commit(e.s)
               /\ call' = [c EXCEPT !.rel = IF timestamp /\ relative_to = None
                                            THEN (IF kb_listen_start # None
                                                  THEN kb_listen_start ELSE Some(now))
                                            ELSE relative_to]
               /\ pc' = "settle"
    /\ pressed' = <<>>
    /\ UnchangedSessions
    /\ UnchangedEnv
    /\ UnchangedMarks

\* The start of wait_one_press / wait_for_presses: _init_wait_press checks the
\* arguments, reads start_time, settles relative_to and calls wait_secs.
init_wait_press(op, max_wait, min_wait, live_keys, timestamp, relative_to) ==
    /\ pc = "idle"
    /\ LET c == NewCall(op, max_wait, min_wait, live_keys, timestamp, relative_to)
           e == init_wait_press_enter(Fresh(St), max_wait, min_wait, live_keys)
       IN IF e.raised # ""
          THEN /\ Commit(e.s)
               /\ call' = Ended([c EXCEPT !.before = Fields], e.raised, "None", <<>>, e.s)
               /\ pc' = "returned"
          ELSE /\ Fits(max_wait, min_wait)
               /\ Commit(e.s)
               /\ call' = [c EXCEPT !.rel = IF timestamp /\ relative_to = None
                                            THEN Some(now) ELSE relative_to]
               /\ pc' = "settle"
    /\ pressed' = <<>>
    /\ UnchangedSessions
    /\ UnchangedEnv
    /\ UnchangedMarks

\* Keyboard.wait_one_press, called
wait_one_press(max_wait, min_wait, live_keys, timestamp, relative_to) ==
    init_wait_press("wait_one_press", max_wait, min_wait, live_keys, timestamp,
                    relative_to)

\* Keyboard.wait_for_presses, called
wait_for_presses(max_wait, min_wait, live_keys, timestamp, relative_to) ==
    init_wait_press("wait_for_presses", max_wait, min_wait, live_keys, timestamp,
                    relative_to)

\* the loop test with the start time read anew at each test
InTime_restart ==
    IF isinf(call.max_wait) THEN TRUE ELSE now - now < call.max_wait[1]

\* the loop test against max_wait - 1
InTime_early ==
    IF isinf(call.max_wait) THEN TRUE ELSE now - call.start < call.max_wait[1] - 1

\* master_clock() - start_time < max_wait
InTime == IF isinf(call.max_wait) THEN TRUE ELSE now - call.start < call.max_wait[1]

\* wait_secs(min_wait) has returned: it blocks for at least min_wait
wait_secs_over == now - call.start >= call.min_wait

\* Keyboard._init_wait_press: wait_secs returns, then check_force_quit()
init_wait_press_check ==
    /\ pc = "settle"
    /\ call.op \in KbWaits
    /\ wait_secs_over
    /\ LET q == check_force_quit(St, KeysNone)
       IN /\ Commit(q.s)
          /\ IF q.raised # ""
             THEN /\ call' = Ended(call, q.raised, "None", <<>>, q.s)
                  /\ pc' = After(q.raised)
             ELSE /\ call' = call
                  /\ pc' = "clear"
    /\ UNCHANGED pressed
    /\ UnchangedSessions
    /\ UnchangedEnv
    /\ UnchangedMarks

\* Keyboard._init_wait_press: _clear_events(), and the wait's pressed = []
init_wait_press_clear ==
    /\ pc = "clear"
    /\ call.op \in KbWaits
    /\ LET s == clear_keyboard_events(St)
       IN /\ Commit(s)
          /\ call' = [call EXCEPT !.clearedInTime = InTime]
          /\ marks' = [marks EXCEPT !.kc = Len(arrived)]
    /\ pc' = "poll"
    /\ pressed' = <<>>
    /\ UnchangedSessions
    /\ UnchangedEnv

\* Keyboard.wait_one_press: one test of the loop's condition, then either the
\* loop's body or what follows the loop
wait_one_press_loop ==
    /\ pc = "poll"
    /\ call.op = "wait_one_press"
    /\ IF Len(pressed) = 0 /\ InTime
       THEN LET r == retrieve_keyboard_events(St, call.live)
            IN /\ Commit(r.s)
               /\ pressed' = r.targets
               /\ UNCHANGED << pc, call >>
       ELSE /\ pressed' = <<>>
            /\ IF Len(pressed) > 0
               THEN LET k == correct_presses(St, pressed, call.timestamp, call.rel,
                                             kb_time_correction)
                    IN /\ Commit(k.s)
                       /\ call' = IF k.raised # ""
                                  THEN Ended(call, k.raised, "None", <<>>, k.s)
                                  ELSE Ended(call, "ok", "one", <<k.val[1]>>, k.s)
               ELSE /\ Commit(St)
                    /\ call' = Ended(call, "ok",
                                     IF call.timestamp THEN "NonePair" ELSE "None",
                                     <<>>, St)
            /\ pc' = After(call'.status)
    /\ UnchangedSessions
    /\ UnchangedEnv
    /\ UnchangedMarks

\* Keyboard.wait_for_presses: one test of the loop's condition, then either
\* the loop's body or the return
wait_for_presses_loop ==
    /\ pc = "poll"
    /\ call.op = "wait_for_presses"
    /\ IF InTime
       THEN LET r == retrieve_keyboard_events(St, call.live)
            IN /\ Commit(r.s)
               /\ pressed' = r.targets
               /\ UNCHANGED << pc, call >>
       ELSE LET k == correct_presses(St, pressed, call.timestamp, call.rel,
                                     kb_time_correction)
            IN /\ pressed' = <<>>
               /\ Commit(k.s)
               /\ call' = IF k.raised # ""
                          THEN Ended(call, k.raised, "None", <<>>, k.s)
                          ELSE Ended(call, "ok", "list", k.val, k.s)
               /\ pc' = After(call'.status)
    /\ UnchangedSessions
    /\ UnchangedEnv
    /\ UnchangedMarks

\* Keyboard.check_force_quit, called by the experiment
check_force_quit_call(keys) ==
    /\ pc = "idle"
    /\ LET q == check_force_quit(Fresh(St), keys)
           c == [NewCall("check_force_quit", Inf, 0, None, FALSE, None)
                    EXCEPT !.keys = keys, !.before = Fields]
       IN /\ Commit(q.s)
          /\ call' = IF q.raised # ""
                     THEN Ended(c, q.raised, "None", <<>>, q.s)
                     ELSE Ended(c, "ok", "None", <<>>, q.s)
    /\ pc' = After(call'.status)
    /\ UNCHANGED pressed
    /\ UnchangedSessions
    /\ UnchangedEnv
    /\ UnchangedMarks

\* Mouse.listen_clicks
listen_clicks(get_time_corr) ==
    /\ pc = "idle"
    /\ mouse_time_correction' = get_time_corr
    /\ mouse_listen_start' = Some(now)
    /\ LET s == clear_mouse_events(Fresh(St))
       IN /\ Commit(s)
          /\ call' = Ended(NewCall("listen_clicks", Inf, 0, None, FALSE, None),
                           "ok", "None", <<>>, s)
          /\ marks' = [marks EXCEPT !.ml = Len(arrived), !.mc = Len(arrived),
                                  !.mt = Some(now), !.mcorr = get_time_corr]
    /\ pc' = "returned"
    /\ UNCHANGED << pressed, kb_listen_start, kb_time_correction >>
    /\ UnchangedEnv

\* Mouse.get_clicks
get_clicks(live_buttons, timestamp, relative_to) ==
    /\ pc = "idle"
    /\ LET c == NewCall("get_clicks", Inf, 0, live_buttons, timestamp, relative_to)
       IN IF timestamp /\ relative_to = None /\ mouse_listen_start = None
          THEN /\ Commit(Fresh(St))
               /\ call' = Ended(c, "StateError", "None", <<>>, St)
          ELSE LET rel == IF timestamp /\ relative_to = None
                          THEN mouse_listen_start ELSE relative_to
                   r == retrieve_mouse_events(Fresh(St), live_buttons)
                   k == correct_clicks(r.s, r.targets, timestamp, rel,
                                       mouse_time_correction)
               IN /\ Commit(k.s)
                  /\ call' = IF k.raised # ""
                             THEN Ended([c EXCEPT !.rel = rel], k.raised, "None", <<>>, k.s)
                             ELSE Ended([c EXCEPT !.rel = rel], "ok", "list", k.val, k.s)
    /\ pc' = After(call'.status)
    /\ UNCHANGED pressed
    /\ UnchangedSessions
    /\ UnchangedEnv
    /\ UnchangedMarks

\* Mouse._init_wait_click up to wait_secs: [s, raised]
init_wait_click_enter(s, max_wait, min_wait, live_buttons) ==
    IF init_wait_click_invalid(max_wait, min_wait, live_buttons)
    THEN [s |-> s, raised |-> "ConfigError"]
    ELSE [s |-> s, raised |-> ""]

\* The start of wait_one_click / wait_for_clicks: _init_wait_click checks the
\* arguments, reads start_time, settles relative_to and calls wait_secs.
init_wait_click(op, max_wait, min_wait, live_buttons, timestamp, relative_to) ==
    /\ pc = "idle"
    /\ LET c == NewCall(op, max_wait, min_wait, live_buttons, timestamp, relative_to)
           e == init_wait_click_enter(Fresh(St), max_wait, min_wait, live_buttons)
       IN IF e.raised # ""
          THEN /\ Commit(e.s)
               /\ call' = Ended([c EXCEPT !.before = Fields], e.raised, "None", <<>>, e.s)
               /\ pc' = "returned"
          ELSE /\ Fits(max_wait, min_wait)
               /\ Commit(e.s)
               /\ call' = [c EXCEPT !.rel = IF timestamp /\ relative_to = None
                                            THEN Some(now) ELSE relative_to]
               /\ pc' = "settle"
    /\ pressed' = <<>>
    /\ UnchangedSessions
    /\ UnchangedEnv
    /\ UnchangedMarks

\* Mouse.wait_one_click, called
wait_one_click(max_wait, min_wait, live_buttons, timestamp, relative_to) ==
    init_wait_click("wait_one_click", max_wait, min_wait, live_buttons, timestamp,
                    relative_to)

\* Mouse.wait_for_clicks, called
wait_for_clicks(max_wait, min_wait, live_buttons, timestamp, relative_to) ==
    init_wait_click("wait_for_clicks", max_wait, min_wait, live_buttons, timestamp,
                    relative_to)

\* Mouse._init_wait_click: wait_secs returns, then self._check_force_quit()
init_wait_click_check ==
    /\ pc = "settle"
    /\ call.op \in MouseWaits
    /\ wait_secs_over
    /\ LET q == ec_check_force_quit(St)
       IN /\ Commit(q.s)
          /\ IF q.raised # ""
             THEN /\ call' = Ended(call, q.raised, "None", <<>>, q.s)
                  /\ pc' = After(q.raised)
             ELSE /\ call' = call
                  /\ pc' = "clear"
    /\ UNCHANGED pressed
    /\ UnchangedSessions
    /\ UnchangedEnv
    /\ UnchangedMarks

\* Mouse._init_wait_click: _clear_events(), and the wait's clicked = []
init_wait_click_clear ==
    /\ pc = "clear"
    /\ call.op \in MouseWaits
    /\ LET s == clear_mouse_events(St)
       IN /\ Commit(s)
          /\ call' = [call EXCEPT !.clearedInTime = InTime]
          /\ marks' = [marks EXCEPT !.mc = Len(arrived)]
    /\ pc' = "poll"
    /\ pressed' = <<>>
    /\ UnchangedSessions
    /\ UnchangedEnv

\* Mouse.wait_one_click: one test of the loop's condition, then either the
\* loop's body or what follows the loop
wait_one_click_loop ==
    /\ pc = "poll"
    /\ call.op = "wait_one_click"
    /\ IF Len(pressed) = 0 /\ InTime
       THEN LET r == retrieve_mouse_events(St, call.live)
            IN /\ Commit(r.s)
               /\ pressed' = r.targets
               /\ UNCHANGED << pc, call >>
       ELSE /\ pressed' = <<>>
            /\ IF Len(pressed) > 0
               THEN LET k == correct_clicks(St, pressed, call.timestamp, call.rel,
                                            mouse_time_correction)
                    IN /\ Commit(k.s)
                       /\ call' = IF k.raised # ""
                                  THEN Ended(call, k.raised, "None", <<>>, k.s)
                                  ELSE Ended(call, "ok", "one", <<k.val[1]>>, k.s)
               ELSE /\ Commit(St)
                    /\ call' = Ended(call, "ok",
                                     IF call.timestamp THEN "NonePair" ELSE "None",
                                     <<>>, St)
            /\ pc' = After(call'.status)
    /\ UnchangedSessions
    /\ UnchangedEnv
    /\ UnchangedMarks

\* Mouse.wait_for_clicks: one test of the loop's condition, then either the
\* loop's body or the return
wait_for_clicks_loop ==
    /\ pc = "poll"
    /\ call.op = "wait_for_clicks"
    /\ IF InTime
       THEN LET r == retrieve_mouse_events(St, call.live)
            IN /\ Commit(r.s)
               /\ pressed' = r.targets
               /\ UNCHANGED << pc, call >>
       ELSE LET k == correct_clicks(St, pressed, call.timestamp, call.rel,
                                    mouse_time_correction)
            IN /\ pressed' = <<>>
               /\ Commit(k.s)
               /\ call' = IF k.raised # ""
                          THEN Ended(call, k.raised, "None", <<>>, k.s)
                          ELSE Ended(call, "ok", "list", k.val, k.s)
               /\ pc' = After(call'.status)
    /\ UnchangedSessions
    /\ UnchangedEnv
    /\ UnchangedMarks

\* The caller has looked at what the call came to and is ready for its next
\* call.  The records of the call are kept up to here and no further.
NoCall ==
    [ op |-> "-", max_wait |-> Inf, min_wait |-> 0, live |-> None,
      timestamp |-> FALSE, relative_to |-> None, rel |-> None,
      start |-> 0, status |-> "ok", shape |-> "None", val |-> <<>>,
      time |-> 0, from |-> 0, clearedInTime |-> FALSE, delivered |-> 0,
      before |-> <<>>, keys |-> KeysNone ]

resume ==
    /\ pc = "returned"
    /\ pc' = "idle"
    /\ call' = NoCall
    /\ logged' = <<>>
    /\ did' = {}
    /\ UNCHANGED << now, pending, keyboard_buffer, mouse_buffer, kb_listen_start,
                    kb_time_correction, mouse_listen_start, mouse_time_correction,
                    pressed, arrived, marks, script >>

(* --------------------------- the environment --------------------------- *)
\* Time passes and presses arrive while the experiment runs: between calls
\* and inside a blocking call.  The end of a call takes no time.
Running == {"idle", "settle", "clear", "poll"}

\* The user presses a key or a mouse button: the window has the press, and
\* hands it to the handlers at the next dispatch_events().
press(e) ==
    /\ pc \in Running
    /\ Len(arrived) < MaxEvents
    /\ pending' = Append(pending, e)
    /\ arrived' = Append(arrived, e)
    /\ UNCHANGED << now, keyboard_buffer, mouse_buffer, kb_listen_start,
                    kb_time_correction, mouse_listen_start, mouse_time_correction,
                    pc, call, pressed, logged, did, marks, script >>

\* The clock advances.
tick ==
    /\ pc \in Running
    /\ now < MaxTime
    /\ now' = now + 1
    /\ UNCHANGED << pending, keyboard_buffer, mouse_buffer, kb_listen_start,
                    kb_time_correction, mouse_listen_start, mouse_time_correction,
                    pc, call, pressed, logged, did, arrived, marks, script >>

(* -------------------------- the specification -------------------------- *)
\* Keyboard.__init__ and Mouse.__init__ have run.
Init ==
    /\ now = 0
    /\ pending = <<>>
    /\ keyboard_buffer = <<>>
    /\ mouse_buffer = <<>>
    /\ kb_listen_start = None
    /\ mouse_listen_start = None
    /\ kb_time_correction = FirstTimeCorr
    /\ mouse_time_correction = FirstTimeCorr
    /\ pc = "idle"
    /\ pressed = <<>>
    /\ logged = <<>>
    /\ did = {}
    /\ arrived = <<>>
    /\ marks = [kl |-> 0, kc |-> 0, ml |-> 0, mc |-> 0, kt |-> None, mt |-> None,
                kcorr |-> FirstTimeCorr, mcorr |-> FirstTimeCorr]
    /\ script \in {"keyboard", "mouse"}
    /\ call = NoCall

KeysArgs ==
    { KeysNone, KeysStr(<<"e", "s", "c">>), KeysStr(<<"a">>),
      KeysList(<< <<"a">>, <<"e", "s", "c">> >>), KeysList(<< <<"a">> >>),
      KeysOther(<< <<"e", "s", "c">> >>) }

\* what the user does while a script of the given kind runs
Presses ==
    IF script = "keyboard" THEN RawKeys
    ELSE RawClicks \cup {e \in RawKeys : e.symbol = ESCAPE_KEY}

Env ==
    \/ \E e \in Presses : press(e)
    \/ tick
    \/ resume

\* an experiment that takes its responses from the keyboard
NextKeyboard ==
    \/ \E c \in TimeCorrs : script = "keyboard" /\ listen_presses(c)
    \/ \E lk \in LiveKeys, m \in CallModes :
          script = "keyboard" /\ get_presses(lk, m[1], m[2])
    \/ \E mx \in MaxWaits, mn \in MinWaits, lk \in LiveKeys, m \in CallModes :
          script = "keyboard" /\ wait_one_press(mx, mn, lk, m[1], m[2])
    \/ \E mx \in MaxWaits, mn \in MinWaits, lk \in LiveKeys, m \in CallModes :
          script = "keyboard" /\ wait_for_presses(mx, mn, lk, m[1], m[2])
    \/ init_wait_press_check
    \/ init_wait_press_clear
    \/ wait_one_press_loop
    \/ wait_for_presses_loop
    \/ \E keys \in KeysArgs : script = "keyboard" /\ check_force_quit_call(keys)

\* an experiment that takes its responses from the mouse
NextMouse ==
    \/ \E c \in TimeCorrs : script = "mouse" /\ listen_clicks(c)
    \/ \E lb \in LiveButtons, m \in CallModes :
          script = "mouse" /\ get_clicks(lb, m[1], m[2])
    \/ \E mx \in MaxWaits, mn \in MinWaits, lb \in LiveButtons, m \in CallModes :
          script = "mouse" /\ wait_one_click(mx, mn, lb, m[1], m[2])
    \/ \E mx \in MaxWaits, mn \in MinWaits, lb \in LiveButtons, m \in CallModes :
          script = "mouse" /\ wait_for_clicks(mx, mn, lb, m[1], m[2])
    \/ init_wait_click_check
    \/ init_wait_click_clear
    \/ wait_one_click_loop
    \/ wait_for_clicks_loop

NextKb == Env \/ NextKeyboard
NextMs == Env \/ NextMouse
Next == Env \/ NextKeyboard \/ NextMouse

\* every experiment
Spec == Init /\ [][Next]_vars
\* the experiments that use the keyboard / the mouse
InitKb == Init /\ script = "keyboard"
InitMouse == Init /\ script = "mouse"
SpecKb == InitKb /\ [][NextKb]_vars
SpecMouse == InitMouse /\ [][NextMs]_vars

\* The experiment runs on: the master clock advances as long as the model
\* has readings for it, and a call that can take its next step takes it.
CallStep ==
    \/ init_wait_press_check
    \/ init_wait_press_clear
    \/ wait_one_press_loop
    \/ wait_for_presses_loop
    \/ init_wait_click_check
    \/ init_wait_click_clear
    \/ wait_one_click_loop
    \/ wait_for_clicks_loop

Fairness == WF_vars(tick) /\ WF_vars(CallStep)

\* The experiments that only wait: every call is a wait_*, without settle
\* time and without timestamps, for any key / button or for one of them.
WaitPresses ==
    IF script = "keyboard"
    THEN {e \in RawKeys : e.symbol \in {A_KEY, ESCAPE_KEY}}
    ELSE {e \in RawClicks : e.button = "LEFT"}
             \cup {e \in RawKeys : e.symbol = ESCAPE_KEY}

NextWaits ==
    \/ \E e \in WaitPresses : press(e)
    \/ tick
    \/ resume
    \/ \E mx \in MaxWaits, lk \in {None, Some(<< <<"a">> >>)} :
          script = "keyboard" /\ wait_one_press(mx, 0, lk, FALSE, None)
    \/ \E mx \in MaxWaits, lk \in {None, Some(<< <<"a">> >>)} :
          script = "keyboard" /\ wait_for_presses(mx, 0, lk, FALSE, None)
    \/ \E mx \in MaxWaits, lb \in {None, Some(<<"left">>)} :
          script = "mouse" /\ wait_one_click(mx, 0, lb, FALSE, None)
    \/ \E mx \in MaxWaits, lb \in {None, Some(<<"left">>)} :
          script = "mouse" /\ wait_for_clicks(mx, 0, lb, FALSE, None)
    \/ CallStep

\* ... running on
FairSpec == Init /\ [][NextWaits]_vars /\ Fairness

\* The experiments that take responses from the keyboard and from the mouse
\* in turn: any order of listen_*, get_* and finite wait_* of the two
\* controllers, without filters and without timestamps, while the user
\* presses keys and clicks.
BothPresses ==
    {e \in RawKeys : e.symbol \in {A_KEY, ESCAPE_KEY}}
        \cup {e \in RawClicks : e.button = "LEFT"}

InitBoth ==
    /\ now = 0
    /\ pending = <<>>
    /\ keyboard_buffer = <<>>
    /\ mouse_buffer = <<>>
    /\ kb_listen_start = None
    /\ mouse_listen_start = None
    /\ kb_time_correction = FirstTimeCorr
    /\ mouse_time_correction = FirstTimeCorr
    /\ pc = "idle"
    /\ pressed = <<>>
    /\ logged = <<>>
    /\ did = {}
    /\ arrived = <<>>
    /\ marks = [kl |-> 0, kc |-> 0, ml |-> 0, mc |-> 0, kt |-> None, mt |-> None,
                kcorr |-> FirstTimeCorr, mcorr |-> FirstTimeCorr]
    /\ script = "both"
    /\ call = NoCall

NextBoth ==
    \/ \E e \in BothPresses : press(e)
    \/ tick
    \/ resume
    \/ \E c \in TimeCorrs : listen_presses(c)
    \/ \E c \in TimeCorrs : listen_clicks(c)
    \/ get_presses(None, FALSE, None)
    \/ get_clicks(None, FALSE, None)
    \/ wait_one_press(Some(1), 0, None, FALSE, None)
    \/ wait_for_presses(Some(1), 0, None, FALSE, None)
    \/ wait_one_click(Some(1), 0, None, FALSE, None)
    \/ wait_for_clicks(Some(1), 0, None, FALSE, None)
    \/ CallStep

SpecBoth == InitBoth /\ [][NextBoth]_vars

(* ======================================================================= *)
(*                               Properties                                *)
(* ======================================================================= *)
\* The presses are told apart by their place in `arrived`; the properties
\* name a press by what the user did, not by what a handler made of it.
IsForceQuitPress(e) == e.kind = "key" /\ e.symbol = ESCAPE_KEY

\* the identifier the experiment knows a press by
NameOf(e) ==
    IF e.kind = "click" THEN (IF e.button = "LEFT" THEN "left" ELSE "right")
    ELSE IF e.symbol = A_KEY THEN <<"a">>
    ELSE IF e.symbol = ESCAPE_KEY THEN <<"e", "s", "c">>
    ELSE <<"1">>

\* press e is of the kind the controller collects and passes the caller's filter
Matches(e, kind, live) ==
    /\ e.kind = kind
    /\ IF live = None THEN TRUE ELSE InList(NameOf(e), live[1])

\* the places lo+1..hi of `arrived`, in order, whose press passes the filter
Arrivals(lo, hi, kind, live) ==
    SelectSeq([k \in 1..(hi - lo) |-> lo + k],
              LAMBDA i : Matches(arrived[i], kind, live))

Ids(val) == [i \in 1..Len(val) |-> val[i].id]

Delivered == Len(arrived) - Len(pending)
Returned(ops) == pc = "returned" /\ call.op \in ops /\ call.status = "ok"
Elapsed == call.time - call.start

\* C1 (as claimed): a force-quit key dispatched at any moment between the
\* start of a finite wait_one_press / wait_for_presses and its timeout makes
\* the wait raise ForceQuit: such a wait never returns normally.
C1_ForceQuitInWaitNeverReturns ==
    (Returned(KbWaits) /\ ~isinf(call.max_wait)) =>
        ~ \E i \in (call.from + 1)..call.delivered :
              /\ IsForceQuitPress(arrived[i])
              /\ (i > marks.kc \/ call.clearedInTime)

\* C2 (as claimed): a force-quit key dispatched during the polling of
\* wait_one_click / wait_for_clicks makes the wait raise ForceQuit, whether
\* or not a click arrives: such a wait never returns normally.
C2_ForceQuitInClickPollingRaises ==
    Returned(MouseWaits) =>
        ~ \E i \in (marks.mc + 1)..call.delivered : IsForceQuitPress(arrived[i])

\* C3 (as claimed): a get_presses / get_clicks call that has pumped the event
\* source while the keyboard buffer holds a force-quit key raises ForceQuit,
\* whatever the filter and whether or not a press matched it: it does not
\* return.
C3_GetChecksForceQuit ==
    Returned({"get_presses", "get_clicks"}) =>
        ~ \E i \in 1..Len(keyboard_buffer) :
              InList(keyboard_buffer[i].key, force_quit_keys)

\* C4: a press that had arrived (dispatched or still pending) when
\* listen_presses() was called is in no result of a later get_presses,
\* wait_one_press or wait_for_presses; the same for clicks and listen_clicks().
C4_ListenDropsEarlierPresses ==
    /\ Returned({"get_presses"} \cup KbWaits) =>
           \A i \in 1..Len(call.val) : call.val[i].id > marks.kl
    /\ Returned({"get_clicks"} \cup MouseWaits) =>
           \A i \in 1..Len(call.val) : call.val[i].id > marks.ml

\* C4's case: a keyboard call returns presses after a listen_presses() that
\* dropped an earlier press.
C4_Witness ==
    /\ Returned({"get_presses"} \cup KbWaits)
    /\ Len(call.val) > 0
    /\ marks.kl > 0

\* C5: every press a wait_* returns arrived after the wait's clear: none that
\* arrived before the wait began or during its settle window is returned.
C5_WaitReturnsOnlyLaterPresses ==
    /\ Returned(KbWaits) => \A i \in 1..Len(call.val) : call.val[i].id > marks.kc
    /\ Returned(MouseWaits) => \A i \in 1..Len(call.val) : call.val[i].id > marks.mc

\* C5's case: a click wait returns a click although another press arrived
\* between the start of the wait and its clear.
C5_Witness ==
    /\ Returned(MouseWaits)
    /\ Len(call.val) > 0
    /\ marks.mc > call.from

\* C6: the keyboard buffer holds, in order and once each, exactly the presses
\* dispatched since its last clear, in every state (a retrieval takes nothing
\* out of it), and get_presses returns those of them that pass its filter, so
\* that of two get_presses with the same filter and no clear between, the
\* first result is a prefix of the second.
C6_BufferLosesNothing ==
    /\ Ids(keyboard_buffer) = Arrivals(marks.kc, Delivered, "key", None)
    /\ Returned({"get_presses"}) =>
           Ids(call.val) = Arrivals(marks.kc, call.delivered, "key", call.live)

\* C6's case: get_presses(live_keys=None) returns two presses.
C6_Witness ==
    /\ Returned({"get_presses"})
    /\ call.live = None
    /\ Len(call.val) = 2

\* the kind of press a call collects
KindOf(op) == IF op \in MouseWaits \cup {"get_clicks"} THEN "click" ELSE "key"
ClearMark(op) == IF KindOf(op) = "click" THEN marks.mc ELSE marks.kc

\* C7: wait_one_press / wait_one_click returns the earliest press, after the
\* wait's clear, that passes the filter; it returns None ((None, None) with
\* timestamp) only when max_wait is over and no such press was dispatched.
C7_WaitOneReturnsEarliest ==
    Returned({"wait_one_press", "wait_one_click"}) =>
        LET due == Arrivals(ClearMark(call.op), call.delivered, KindOf(call.op),
                            call.live)
        IN IF call.shape = "one"
           THEN Len(call.val) = 1 /\ Len(due) > 0 /\ call.val[1].id = due[1]
           ELSE /\ call.shape = (IF call.timestamp THEN "NonePair" ELSE "None")
                /\ due = <<>>
                /\ ~isinf(call.max_wait)
                /\ Elapsed >= call.max_wait[1]

\* C7's case: wait_one_press returns one press of two that passed the filter.
C7_Witness ==
    /\ Returned({"wait_one_press"})
    /\ call.shape = "one"
    /\ Len(Arrivals(marks.kc, call.delivered, "key", call.live)) = 2

\* C8: wait_for_presses returns only when max_wait is over, and returns, in
\* order and once each, exactly the presses dispatched after its clear that
\* pass the filter.
C8_WaitForReturnsAll ==
    Returned({"wait_for_presses"}) =>
        /\ ~isinf(call.max_wait)
        /\ Elapsed >= call.max_wait[1]
        /\ call.shape = "list"
        /\ Ids(call.val) = Arrivals(marks.kc, call.delivered, "key", call.live)

\* C8's case: wait_for_presses returns two presses.
C8_Witness ==
    /\ Returned({"wait_for_presses"})
    /\ Len(call.val) = 2

\* C9 (as claimed): with no press at all, wait_for_presses returns an empty
\* list after a time t with min_wait <= t <= max_wait.
C9_ReturnsWithinWindow ==
    (Returned({"wait_for_presses"}) /\ arrived = <<>>) =>
        /\ call.val = <<>>
        /\ call.min_wait <= Elapsed
        /\ Elapsed <= call.max_wait[1]

\* C9 (amended): with no press at all, wait_for_presses returns an empty list
\* after a time t with min_wait <= t and max_wait <= t.
C9_ReturnsAfterWindow ==
    (Returned({"wait_for_presses"}) /\ arrived = <<>>) =>
        /\ call.val = <<>>
        /\ call.min_wait <= Elapsed
        /\ call.max_wait[1] <= Elapsed

\* C9's case: with no press at all, a wait_for_presses with a settle time
\* returns later than max_wait.
C9_Witness ==
    /\ Returned({"wait_for_presses"})
    /\ arrived = <<>>
    /\ call.min_wait > 0
    /\ Elapsed > call.max_wait[1]

\* the arguments with which a wait is to raise ConfigError
BadWait(c) ==
    \/ isinf(c.max_wait) /\ c.live = Some(<<>>)
    \/ ~isinf(c.max_wait) /\ c.min_wait > c.max_wait[1]

\* C10: a wait_* with infinite max_wait and an empty filter, or with
\* min_wait > max_wait, raises ConfigError, and has by then not waited, not
\* pumped the event source, not checked force-quit, not cleared and not
\* logged: buffers, listen_start and time_correction are as they were.
C10_ConfigErrorFirst ==
    /\ (call.op \in KbWaits \cup MouseWaits /\ BadWait(call)) =>
           call.status = "ConfigError"
    /\ call.status = "ConfigError" =>
           /\ did = {}
           /\ logged = <<>>
           /\ call.before = Fields
           /\ call.delivered = Delivered
           /\ call.time = call.start
           /\ now = call.start

\* C10's case: a wait raises ConfigError while a press waits to be dispatched
\* and another is in the buffer.
C10_Witness ==
    /\ call.status = "ConfigError"
    /\ pending # <<>>
    /\ keyboard_buffer # <<>>

\* the buffer a call reads, and the session history of its controller
BufferOf(op) == IF KindOf(op) = "click" THEN mouse_buffer ELSE keyboard_buffer
LastListen(op) == IF KindOf(op) = "click" THEN marks.mt ELSE marks.kt
LastCorr(op) == IF KindOf(op) = "click" THEN marks.mcorr ELSE marks.kcorr

\* every time of val is the local time of its press in buf, plus c, minus r
Timed(val, buf, c, r) ==
    \A i \in 1..Len(val) :
        \E j \in 1..Len(buf) : buf[j].id = val[i].id /\ val[i].t = buf[j].t + c - r

Over == pc \in {"returned", "quit"}

\* C11: get_presses / get_clicks with timestamp=True and relative_to=None
\* raises StateError when its controller's listen_* was never called, having
\* neither pumped nor logged; after a listen_* it does not raise StateError and
\* takes the time of the last listen_* as the origin of the returned times.
C11_StateErrorWithoutSession ==
    (Over /\ call.op \in {"get_presses", "get_clicks"}) =>
        IF call.timestamp /\ call.relative_to = None /\ LastListen(call.op) = None
        THEN call.status = "StateError" /\ did = {} /\ logged = <<>>
        ELSE /\ call.status # "StateError"
             /\ (call.timestamp /\ call.relative_to = None) =>
                    /\ call.rel = LastListen(call.op)
                    /\ call.status = "ok" =>
                           Timed(call.val, BufferOf(call.op), LastCorr(call.op),
                                 LastListen(call.op)[1])

\* C11's case: get_presses raises StateError while a press waits to be
\* dispatched.
C11_Witness ==
    /\ pc = "returned"
    /\ call.op = "get_presses"
    /\ call.status = "StateError"
    /\ pending # <<>>

Retrievals == {"get_presses", "get_clicks"} \cup KbWaits \cup MouseWaits

\* the fields of a returned press without its time
Bare(op) == IF KindOf(op) = "click" THEN {"id", "button", "x", "y"} ELSE {"id", "key"}

\* C13: with timestamp=True and relative_to=r given, a press buffered with
\* local time t0 is returned with time t0 + c - r, c being the time correction
\* of the last listen_* (of the construction if there was none); with
\* timestamp=False it is returned without a time; in both cases, and whatever
\* r is, the recorder is given it with time t0 + c.
C13_CorrectedTimes ==
    call.op \in Retrievals =>
        /\ \A k \in 1..Len(logged) :
               Timed(logged[k], BufferOf(call.op), LastCorr(call.op), 0)
        /\ (pc = "returned" /\ call.status = "ok") =>
               /\ (call.timestamp /\ call.relative_to # None) =>
                      Timed(call.val, BufferOf(call.op), LastCorr(call.op),
                            call.relative_to[1])
               /\ ~call.timestamp =>
                      \A i \in 1..Len(call.val) : DOMAIN call.val[i] = Bare(call.op)

\* C13's case: after a listen_presses(), get_presses with timestamp=True and
\* relative_to=1 returns a press buffered at a time other than 0.
C13_Witness ==
    /\ Returned({"get_presses"})
    /\ call.timestamp /\ call.relative_to = Some(1)
    /\ marks.kt # None
    /\ Len(call.val) > 0
    /\ \E j \in 1..Len(keyboard_buffer) : keyboard_buffer[j].t > 0
    /\ Len(logged) = 1

\* C14: check_force_quit(keys) with a string or a list raises ForceQuit if
\* and only if one of the keys given is a force-quit key, and else returns;
\* either way it has not pumped and the buffers are as they were; with keys of
\* another type it raises TypeError.
C14_CheckGivenKeys ==
    (Over /\ call.op = "check_force_quit" /\ call.keys.type # "None") =>
        /\ did \cap {"pump", "clear", "log"} = {}
        /\ call.before = Fields
        /\ Len(pending) = Len(arrived) - call.delivered
        /\ call.status =
              IF call.keys.type \in {"str", "list"}
              THEN (IF \E i \in 1..Len(call.keys.val) :
                          call.keys.val[i] = <<"e", "s", "c">>
                    THEN "ForceQuit" ELSE "ok")
              ELSE "TypeError"

\* C14's case: check_force_quit with a list that holds a force-quit key
\* raises while a press waits to be dispatched and another is in the buffer.
C14_Witness ==
    /\ pc = "quit"
    /\ call.op = "check_force_quit"
    /\ call.keys.type = "list"
    /\ pending # <<>>
    /\ keyboard_buffer # <<>>

InWait == pc \in {"settle", "clear", "poll"}

\* C15: a wait_* with finite max_wait comes to an end: it returns a result or
\* the timeout value, or it raises.
C15_FiniteWaitEnds ==
    (InWait /\ ~isinf(call.max_wait)) ~> Over

\* C15's case: a finite wait has timed out with presses arriving during it.
C15_Witness ==
    /\ Returned(KbWaits \cup MouseWaits)
    /\ ~isinf(call.max_wait)
    /\ call.shape \in {"None", "NonePair"}
    /\ Len(arrived) > call.from

\* C16 (as claimed): in a wait_one_press / wait_for_presses with infinite
\* max_wait, once a poll has dispatched a force-quit key the call raises
\* ForceQuit.
C16_ForceQuitEndsEndlessWait ==
    (/\ pc = "poll"
     /\ call.op \in KbWaits
     /\ isinf(call.max_wait)
     /\ \E i \in (marks.kc + 1)..Delivered : IsForceQuitPress(arrived[i]))
        ~> (pc = "quit")

\* the caller's filter with the force-quit keys added, as the retrieval uses it
AugLive(live) == IF live = None THEN None ELSE Some(live[1] \o force_quit_keys)

\* the call has handed a retrieval to _correct_presses: a get_presses past
\* its StateError test, a wait past its _init_wait_press
Handed ==
    /\ Over
    /\ IF call.op = "get_presses" THEN call.status # "StateError"
       ELSE call.op \in KbWaits /\ "clear" \in did

\* the presses of the call's final retrieval, as places of `arrived`
FinalRetrieval == Arrivals(marks.kc, call.delivered, "key", AugLive(call.live))

\* C17: a get_presses / wait_one_press / wait_for_presses call gives the
\* recorder at most one list and never an empty one; when the call ends, it
\* has given the recorder exactly the presses of its final retrieval (all of
\* them, a wait_one_press too), at their corrected times, if there were any,
\* and nothing otherwise; this holds also when the call ends by ForceQuit
\* raised on that retrieval.
C17_RecorderOnce ==
    call.op \in {"get_presses"} \cup KbWaits =>
        /\ Len(logged) <= 1
        /\ \A k \in 1..Len(logged) :
               /\ logged[k] # <<>>
               /\ Timed(logged[k], keyboard_buffer, kb_time_correction, 0)
        /\ Handed =>
               IF FinalRetrieval = <<>> THEN logged = <<>>
               ELSE Len(logged) = 1 /\ Ids(logged[1]) = FinalRetrieval
        /\ ~Handed => logged = <<>>

\* C17's case: a wait_one_press whose first non-empty poll held a press and a
\* force-quit key has raised ForceQuit, both presses logged.
C17_Witness ==
    /\ pc = "quit"
    /\ call.op = "wait_one_press"
    /\ "clear" \in did
    /\ Len(logged) = 1
    /\ Len(logged[1]) = 2

\* C18: listen_start and time_correction of a controller change only in a
\* step of its listen_*, which sets listen_start to the time of the call and
\* takes a new correction; no get_*, wait_* or check_force_quit step changes
\* them, so get_presses / get_clicks with timestamp=True and relative_to=None
\* raises StateError as long as no listen_* of its controller was called,
\* whatever waits came before.
C18_SessionsOnlyByListen ==
    [][ /\ (kb_listen_start' # kb_listen_start
             \/ kb_time_correction' # kb_time_correction) =>
               /\ pc = "idle" /\ call'.op = "listen_presses"
               /\ kb_listen_start' = Some(now)
               /\ kb_time_correction' \in TimeCorrs
        /\ (mouse_listen_start' # mouse_listen_start
             \/ mouse_time_correction' # mouse_time_correction) =>
               /\ pc = "idle" /\ call'.op = "listen_clicks"
               /\ mouse_listen_start' = Some(now)
               /\ mouse_time_correction' \in TimeCorrs
        /\ (/\ pc = "idle" /\ call'.op \in {"get_presses", "get_clicks"}
            /\ call'.timestamp /\ call'.relative_to = None
            /\ LastListen(call'.op) = None) =>
               call'.status = "StateError"
      ]_vars

\* C18's case: a wait_* with timestamp=True and relative_to=None has returned
\* timed presses, and its controller still has no session.
C18_Witness ==
    /\ Returned(KbWaits \cup MouseWaits)
    /\ call.timestamp /\ call.relative_to = None
    /\ Len(call.val) > 0
    /\ marks.kc > 0
    /\ kb_listen_start = None /\ mouse_listen_start = None
    /\ kb_time_correction = FirstTimeCorr

\* C19: a result that get_presses, wait_one_press or wait_for_presses returns
\* holds no force-quit key, and holds only keys of the caller's list when the
\* caller gave one; so get_presses with an empty list, if it returns, returns
\* the empty list.
C19_NoForceQuitKeyReturned ==
    Returned({"get_presses"} \cup KbWaits) =>
        /\ \A i \in 1..Len(call.val) : ~InList(call.val[i].key, force_quit_keys)
        /\ call.live # None =>
               \A i \in 1..Len(call.val) : InList(call.val[i].key, call.live[1])
        /\ (call.op = "get_presses" /\ call.live = Some(<<>>)) => call.val = <<>>

\* C19's case: get_presses with an empty list returns while the buffer holds
\* a press.
C19_Witness ==
    /\ Returned({"get_presses"})
    /\ call.live = Some(<<>>)
    /\ keyboard_buffer # <<>>
    /\ call.val = <<>>

\* buf is the beginning of buf2: nothing was taken out of buf
IsPrefix(buf, buf2) ==
    Len(buf) <= Len(buf2) /\ SubSeq(buf2, 1, Len(buf)) = buf

\* C20: in an experiment that uses both controllers in any order, presses
\* leave the keyboard buffer only in a step of listen_presses or of a
\* keyboard wait, and clicks leave the pointer buffer only in a step of
\* listen_clicks or of a pointer wait; each buffer holds every press of its
\* kind dispatched since its own controller's last clear, and get_presses /
\* get_clicks, when it returns, returns all of them, whatever the other
\* controller did meanwhile.
C20_BuffersIndependent ==
    /\ [][ /\ ~IsPrefix(keyboard_buffer, keyboard_buffer') =>
                  call'.op \in {"listen_presses"} \cup KbWaits
           /\ ~IsPrefix(mouse_buffer, mouse_buffer') =>
                  call'.op \in {"listen_clicks"} \cup MouseWaits ]_vars
    /\ [](/\ Ids(keyboard_buffer) = Arrivals(marks.kc, Delivered, "key", None)
          /\ Ids(mouse_buffer) = Arrivals(marks.mc, Delivered, "click", None)
          /\ Returned({"get_presses", "get_clicks"}) =>
                 Ids(call.val) = Arrivals(ClearMark(call.op), call.delivered,
                                          KindOf(call.op), None))

\* C20's case: get_presses returns a key press that arrived before the clear
\* of a pointer wait, which dispatched it or found it dispatched; there was
\* no listen_clicks.
C20_Witness ==
    /\ Returned({"get_presses"})
    /\ Len(call.val) > 0
    /\ call.val[1].id <= marks.mc
    /\ marks.ml = 0
    /\ marks.mt = None

====
